---- MODULE Spec2Model ----
(* Model of src/tokenizer.py: clean_text, pick_chunk_params,               *)
(* split_chunks_by_tokens and the /split request handler.                  *)
(* Text is a sequence of Unicode codepoints (integers).                    *)
EXTENDS Integers, Sequences, FiniteSets, TLC

VARIABLES
    raw_in,       \* argument of the clean_text call under study
    once,         \* clean_text(raw_in)
    twice,        \* clean_text(clean_text(raw_in))
    passes,       \* number of clean_text applications done so far
    pc,           \* position of the handler / of the split call
    body,         \* the HTTP request body
    raw_text,     \* data.get("text")
    text,         \* the normalized text
    calls,        \* pipeline functions invoked so far, in order
    response,     \* the HTTP response
    n_tokens,     \* len(encoding.encode(text))
    chunk_size,
    overlap,
    step,
    i,            \* loop variable of the range() loop
    windows,      \* the slices `sub_tokens` taken so far, as <<lo, hi>>
    chunks,       \* the list `chunks`
    failed,       \* positions of `chunks` whose decode raised
    fail_budget   \* number of decode calls the tokenizer may reject

vars == <<raw_in, once, twice, passes, pc, body, raw_text, text, calls,
          response, n_tokens, chunk_size, overlap, step, i, windows, chunks,
          failed, fail_budget>>

cleanVars == <<raw_in, once, twice, passes>>
handlerVars == <<body, raw_text, text, calls, response>>
splitVars == <<n_tokens, chunk_size, overlap, step, i, windows, chunks, failed,
               fail_budget>>

-----------------------------------------------------------------------------
(* Bounds *)

MaxLen == 5        \* longest text given to clean_text
MaxReqLen == 3     \* longest `text` string of a request
MaxN == 5          \* longest token sequence of a direct split call
MaxCS == 3         \* largest chunk_size of a direct split call
MaxOv == 4         \* largest overlap of a direct split call
MaxTokens == 12050 \* largest token count given to pick_chunk_params
MaxFail == 1       \* decode rejections explored per planned split

-----------------------------------------------------------------------------
(* Codepoints *)

TAB == 9
LF == 10
CR == 13
SP == 32
NBSP == 160
COPYRIGHT == 169
BOM == 65279
FFFD == 65533

Min(a, b) == IF a < b THEN a ELSE b

\* unicodedata.category(ch), as <<major, minor>>, for the codepoints in use
category(ch) ==
    IF ch = LF \/ ch = CR \/ ch = TAB \/ ch < 32 \/ (ch >= 127 /\ ch < 160)
        THEN <<"C", "c">>
    ELSE IF ch = BOM THEN <<"C", "f">>
    ELSE IF ch = FFFD \/ ch = COPYRIGHT THEN <<"S", "o">>
    ELSE IF ch = SP \/ ch = NBSP THEN <<"Z", "s">>
    ELSE IF ch >= 48 /\ ch <= 57 THEN <<"N", "d">>
    ELSE IF ch >= 65 /\ ch <= 90 THEN <<"L", "u">>
    ELSE IF ch >= 97 /\ ch <= 122 THEN <<"L", "l">>
    ELSE IF ch = 91 THEN <<"P", "s">>
    ELSE IF ch = 93 THEN <<"P", "e">>
    ELSE <<"P", "o">>

\* str.isspace() of one character
IsSpace(ch) ==
    \/ ch \in 9..13
    \/ ch \in 28..32
    \/ ch = 133
    \/ ch = NBSP

\* simple case folding used by re.IGNORECASE
Lower(ch) == IF ch >= 65 /\ ch <= 90 THEN ch + 32 ELSE ch

Drop(s, k) == SubSeq(s, k + 1, Len(s))

\* step 1: if text.startswith(BOM): text = text[1:]
DropBOM(s) == IF Len(s) >= 1 /\ s[1] = BOM THEN Tail(s) ELSE s

\* step 2: text.replace(FFFD, " ")
ReplaceFFFD(s) == [k \in 1..Len(s) |-> IF s[k] = FFFD THEN SP ELSE s[k]]

KeepsCategory_CcOnly(ch) ==
    \/ ch = LF
    \/ ~(category(ch) = <<"C", "c">> \/ category(ch) = <<"S", "o">>)

KeepsCategory(ch) ==
    \/ ch = LF
    \/ ~(category(ch)[1] = "C" \/ category(ch) = <<"S", "o">>)

\* step 3: the per-character category scan
StripCategories(s) == [k \in 1..Len(s) |-> IF KeepsCategory(s[k]) THEN s[k] ELSE SP]

MatchesNull(s) ==
    /\ Len(s) >= 4
    /\ Lower(s[1]) = 110
    /\ Lower(s[2]) = 117
    /\ Lower(s[3]) = 108
    /\ Lower(s[4]) = 108

\* step 4: re.sub(r"null", " ", text, flags=re.IGNORECASE)
RECURSIVE SubNull(_)
SubNull(s) ==
    IF Len(s) = 0 THEN s
    ELSE IF MatchesNull(s) THEN <<SP>> \o SubNull(Drop(s, 4))
    ELSE <<s[1]>> \o SubNull(Tail(s))

HasDoubleSpace(s) == \E k \in 1..(Len(s) - 1) : s[k] = SP /\ s[k + 1] = SP

\* one text.replace("  ", " ")
RECURSIVE ReplaceDouble(_)
ReplaceDouble(s) ==
    IF Len(s) < 2 THEN s
    ELSE IF s[1] = SP /\ s[2] = SP THEN <<SP>> \o ReplaceDouble(Drop(s, 2))
    ELSE <<s[1]>> \o ReplaceDouble(Tail(s))

CollapseSpaces_SinglePass(s) == ReplaceDouble(s)

\* step 5: while "  " in text: text = text.replace("  ", " ")
RECURSIVE CollapseSpaces(_)
CollapseSpaces(s) ==
    IF HasDoubleSpace(s) THEN CollapseSpaces(ReplaceDouble(s)) ELSE s

\* text.replace("\r\n", "\n")
RECURSIVE ReplaceCRLF(_)
ReplaceCRLF(s) ==
    IF Len(s) < 2 THEN s
    ELSE IF s[1] = CR /\ s[2] = LF THEN <<LF>> \o ReplaceCRLF(Drop(s, 2))
    ELSE <<s[1]>> \o ReplaceCRLF(Tail(s))

\* .replace("\r", "\n")
ReplaceCR(s) == [k \in 1..Len(s) |-> IF s[k] = CR THEN LF ELSE s[k]]

RECURSIVE NewlineRun(_)
NewlineRun(s) ==
    IF Len(s) >= 1 /\ s[1] = LF THEN 1 + NewlineRun(Tail(s)) ELSE 0

\* re.sub(r"\n{3,}", "\n\n", text)
RECURSIVE SubNewlines(_)
SubNewlines(s) ==
    IF Len(s) = 0 THEN s
    ELSE IF NewlineRun(s) >= 3 THEN <<LF, LF>> \o SubNewlines(Drop(s, NewlineRun(s)))
    ELSE <<s[1]>> \o SubNewlines(Tail(s))

\* step 6: newline normalisation
NormalizeNewlines(s) == SubNewlines(ReplaceCR(ReplaceCRLF(s)))

RECURSIVE LStrip(_)
LStrip(s) == IF Len(s) >= 1 /\ IsSpace(s[1]) THEN LStrip(Tail(s)) ELSE s

RECURSIVE RStrip(_)
RStrip(s) ==
    IF Len(s) >= 1 /\ IsSpace(s[Len(s)]) THEN RStrip(SubSeq(s, 1, Len(s) - 1)) ELSE s

\* text.strip()
Strip(s) == RStrip(LStrip(s))

clean_text_CollapseEarly(s) ==
    Strip(NormalizeNewlines(SubNull(StripCategories(CollapseSpaces(ReplaceFFFD(DropBOM(s)))))))

clean_text(s) ==
    Strip(NormalizeNewlines(CollapseSpaces(SubNull(StripCategories(ReplaceFFFD(DropBOM(s)))))))

-----------------------------------------------------------------------------
(* Calls of clean_text on bounded inputs *)

Alphabet == {SP, LF, CR, BOM, FFFD, NBSP, 110, 117, 108, 76}

TextsUpTo(m) == UNION {[1..k -> Alphabet] : k \in 0..m}

NoText == <<-1>>

IdleClean ==
    /\ raw_in = NoText
    /\ once = NoText
    /\ twice = NoText
    /\ passes = 0

IdleRequest ==
    /\ body = [kind |-> "none", has_text |-> FALSE, tkind |-> "none", tval |-> <<>>]
    /\ raw_text = [tkind |-> "none", tval |-> <<>>]
    /\ text = NoText
    /\ calls = <<>>
    /\ response = [status |-> 0, top |-> "none", keys |-> {}, payload |-> <<>>]

IdleSplit ==
    /\ n_tokens = 0
    /\ chunk_size = 0
    /\ overlap = 0
    /\ step = 0
    /\ i = 0
    /\ windows = <<>>
    /\ chunks = <<>>
    /\ failed = {}
    /\ fail_budget = 0

InitClean ==
    /\ raw_in \in TextsUpTo(MaxLen)
    /\ once = NoText
    /\ twice = NoText
    /\ passes = 0
    /\ pc = "idle"
    /\ IdleRequest
    /\ IdleSplit

CleanOnce ==
    /\ passes = 0
    /\ once' = clean_text(raw_in)
    /\ passes' = 1
    /\ UNCHANGED <<raw_in, twice, pc, handlerVars, splitVars>>

CleanAgain ==
    /\ passes = 1
    /\ twice' = clean_text(once)
    /\ passes' = 2
    /\ UNCHANGED <<raw_in, once, pc, handlerVars, splitVars>>

NextClean == CleanOnce \/ CleanAgain

SpecClean == InitClean /\ [][NextClean]_vars

-----------------------------------------------------------------------------
(* The tokenizer: one token per UTF-8 byte, decode with errors="replace" *)

Utf8(ch) ==
    IF ch < 128 THEN <<ch>>
    ELSE IF ch < 2048 THEN <<192 + (ch \div 64), 128 + (ch % 64)>>
    ELSE <<224 + (ch \div 4096), 128 + ((ch \div 64) % 64), 128 + (ch % 64)>>

RECURSIVE Encode(_)
Encode(s) == IF Len(s) = 0 THEN <<>> ELSE Utf8(s[1]) \o Encode(Tail(s))

IsCont(b) == b >= 128 /\ b < 192

RECURSIVE Decode(_)
Decode(t) ==
    IF Len(t) = 0 THEN <<>>
    ELSE IF t[1] < 128 THEN <<t[1]>> \o Decode(Tail(t))
    ELSE IF t[1] >= 192 /\ t[1] < 224 /\ Len(t) >= 2 /\ IsCont(t[2])
        THEN <<(t[1] - 192) * 64 + (t[2] - 128)>> \o Decode(Drop(t, 2))
    ELSE IF t[1] >= 224 /\ t[1] < 240 /\ Len(t) >= 3 /\ IsCont(t[2]) /\ IsCont(t[3])
        THEN <<(t[1] - 224) * 4096 + (t[2] - 128) * 64 + (t[3] - 128)>> \o Decode(Drop(t, 3))
    ELSE <<FFFD>> \o Decode(Tail(t))

-----------------------------------------------------------------------------
(* pick_chunk_params *)

pick_chunk_params_OffByOne(n) ==
    IF n <= 300 THEN <<n, 0>>
    ELSE IF n < 2000 THEN <<512, 64>>
    ELSE IF n < 5000 THEN <<1024, 128>>
    ELSE IF n < 12000 THEN <<1500, 200>>
    ELSE <<2000, 250>>

pick_chunk_params(n) ==
    IF n < 300 THEN <<n, 0>>
    ELSE IF n < 2000 THEN <<512, 64>>
    ELSE IF n < 5000 THEN <<1024, 128>>
    ELSE IF n < 12000 THEN <<1500, 200>>
    ELSE <<2000, 250>>

\* pick_chunk_params applied to a text of n_tokens tokens
PickTokens ==
    /\ pc = "pick_tokens"
    /\ calls' = Append(calls, "pick_chunk_params")
    /\ chunk_size' = pick_chunk_params(n_tokens)[1]
    /\ overlap' = pick_chunk_params(n_tokens)[2]
    /\ pc' = "split"
    /\ UNCHANGED <<cleanVars, body, raw_text, text, response, n_tokens, step, i,
                   windows, chunks, failed, fail_budget>>

-----------------------------------------------------------------------------
(* split_chunks_by_tokens *)

StepOf_Unguarded(cs, ov) == cs - ov

StepOf_Plus(cs, ov) == cs + ov

\* step = chunk_size - overlap; if step <= 0: step = chunk_size
StepOf(cs, ov) == IF cs - ov <= 0 THEN cs ELSE cs - ov

\* range(0, n, st) still yields the value k
InRange(k, n, st) == (st > 0 /\ k < n) \/ (st < 0 /\ k > n)

\* tokens[k : k + cs] as the index range <<lo, hi>>
Window(k, cs, n) == <<k, Min(k + cs, n)>>

HandleDecode_Skip(chs, fail, w) == IF fail THEN chs ELSE Append(chs, w)

\* the try/except around decode followed by chunks.append
HandleDecode(chs, fail, w) == Append(chs, IF fail THEN <<>> ELSE w)

\* entry of the call up to the evaluation of range(); step 0 raises ValueError
SplitBegin ==
    /\ pc = "split"
    /\ calls' = Append(calls, "split_chunks_by_tokens")
    /\ step' = StepOf(chunk_size, overlap)
    /\ i' = 0
    /\ windows' = <<>>
    /\ chunks' = <<>>
    /\ failed' = {}
    /\ pc' = IF step' = 0 THEN "fault" ELSE "loop"
    /\ UNCHANGED <<cleanVars, body, raw_text, text, response, n_tokens, chunk_size,
                   overlap, fail_budget>>

\* one iteration of the for loop
SplitIter ==
    /\ pc = "loop"
    /\ InRange(i, n_tokens, step)
    /\ \E fail \in BOOLEAN :
        /\ fail => Cardinality(failed) < fail_budget
        /\ windows' = Append(windows, Window(i, chunk_size, n_tokens))
        /\ chunks' = HandleDecode(chunks, fail, Window(i, chunk_size, n_tokens))
        /\ failed' = IF fail THEN failed \cup {Len(windows) + 1} ELSE failed
    /\ i' = i + step
    /\ UNCHANGED <<cleanVars, pc, handlerVars, n_tokens, chunk_size, overlap, step,
                   fail_budget>>

\* the range is exhausted: return chunks
SplitReturn ==
    /\ pc = "loop"
    /\ ~InRange(i, n_tokens, step)
    /\ pc' = "ret"
    /\ UNCHANGED <<cleanVars, handlerVars, splitVars>>

\* direct calls split_chunks_by_tokens(text, chunk_size, overlap)
InitSplit ==
    /\ IdleClean
    /\ IdleRequest
    /\ pc = "split"
    /\ n_tokens \in 0..MaxN
    /\ chunk_size \in 0..MaxCS
    /\ overlap \in 0..MaxOv
    /\ step = 0
    /\ i = 0
    /\ windows = <<>>
    /\ chunks = <<>>
    /\ failed = {}
    /\ fail_budget = n_tokens

NextSplit == SplitBegin \/ SplitIter \/ SplitReturn

SpecSplit == InitSplit /\ [][NextSplit]_vars

\* the loop is sequential code: an enabled step is eventually taken
FairSplit == SpecSplit /\ WF_vars(NextSplit)

\* pick_chunk_params followed by split_chunks_by_tokens with its result
InitPlan ==
    /\ IdleClean
    /\ IdleRequest
    /\ pc = "pick_tokens"
    /\ n_tokens \in 0..MaxTokens
    /\ chunk_size = 0
    /\ overlap = 0
    /\ step = 0
    /\ i = 0
    /\ windows = <<>>
    /\ chunks = <<>>
    /\ failed = {}
    /\ fail_budget = MaxFail

NextPlan == PickTokens \/ SplitBegin \/ SplitIter \/ SplitReturn

SpecPlan == InitPlan /\ [][NextPlan]_vars

-----------------------------------------------------------------------------
(* The /split handler *)

NoResponse == [status |-> 0, top |-> "none", keys |-> {}, payload |-> <<>>]

\* Response(json.dumps({"error": ...}), status=400)
ErrorResponse(ks) == [status |-> 400, top |-> "object", keys |-> ks, payload |-> <<>>]

RECURSIVE Digits(_)
Digits(ds) == IF Len(ds) = 0 THEN <<>> ELSE <<48 + ds[1]>> \o Digits(Tail(ds))

\* str(raw_text) of a JSON value that is not null
Str(v) ==
    IF v.tkind = "string" THEN v.tval
    ELSE IF v.tkind = "number" THEN Digits(v.tval)
    ELSE IF v.tkind = "bool"
        THEN (IF v.tval = <<1>> THEN <<84, 114, 117, 101>> ELSE <<70, 97, 108, 115, 101>>)
    ELSE <<91, 93>>

\* the text of one element of `chunks`
ChunkText(c) ==
    IF c = <<>> THEN <<>> ELSE Decode(SubSeq(Encode(text), c[1] + 1, c[2]))

ChunkTexts(chs) == [k \in 1..Len(chs) |-> ChunkText(chs[k])]

NonObjectBodies ==
    {[kind |-> k, has_text |-> FALSE, tkind |-> "none", tval |-> <<>>] :
        k \in {"unparseable", "null", "number", "string", "array"}}

ObjectBodies ==
    {[kind |-> "object", has_text |-> FALSE, tkind |-> "none", tval |-> <<>>],
     [kind |-> "object", has_text |-> TRUE, tkind |-> "null", tval |-> <<>>],
     [kind |-> "object", has_text |-> TRUE, tkind |-> "number", tval |-> <<7>>],
     [kind |-> "object", has_text |-> TRUE, tkind |-> "number", tval |-> <<1, 2>>],
     [kind |-> "object", has_text |-> TRUE, tkind |-> "bool", tval |-> <<0>>],
     [kind |-> "object", has_text |-> TRUE, tkind |-> "bool", tval |-> <<1>>],
     [kind |-> "object", has_text |-> TRUE, tkind |-> "array", tval |-> <<>>]}
    \cup {[kind |-> "object", has_text |-> TRUE, tkind |-> "string", tval |-> t] :
            t \in TextsUpTo(MaxReqLen)}

Bodies == NonObjectBodies \cup ObjectBodies

InitHandler ==
    /\ IdleClean
    /\ n_tokens = 0
    /\ chunk_size = 0
    /\ overlap = 0
    /\ step = 0
    /\ i = 0
    /\ windows = <<>>
    /\ chunks = <<>>
    /\ failed = {}
    /\ fail_budget = MaxFail
    /\ pc = "parse"
    /\ body \in Bodies
    /\ raw_text = [tkind |-> "none", tval |-> <<>>]
    /\ text = NoText
    /\ calls = <<>>
    /\ response = NoResponse

\* 1) request.get_json(force=True) inside try/except
Parse ==
    /\ pc = "parse"
    /\ IF body.kind = "unparseable"
        THEN /\ response' = ErrorResponse({"error", "exception"})
             /\ pc' = "rejected"
        ELSE /\ response' = response
             /\ pc' = "check_dict"
    /\ UNCHANGED <<cleanVars, body, raw_text, text, calls, splitVars>>

\* 2) isinstance(data, dict)
CheckDict ==
    /\ pc = "check_dict"
    /\ IF body.kind # "object"
        THEN /\ response' = ErrorResponse({"error"})
             /\ pc' = "rejected"
        ELSE /\ response' = response
             /\ pc' = "get_text"
    /\ UNCHANGED <<cleanVars, body, raw_text, text, calls, splitVars>>

TextIsNone_AbsentOnly(b) == ~b.has_text

\* data.get("text") is None
TextIsNone(b) == ~b.has_text \/ b.tkind = "null"

\* 3) raw_text = data.get("text"); reject None
GetText ==
    /\ pc = "get_text"
    /\ IF TextIsNone(body)
        THEN /\ response' = ErrorResponse({"error"})
             /\ pc' = "rejected"
             /\ raw_text' = raw_text
        ELSE /\ response' = response
             /\ pc' = "clean"
             /\ raw_text' = [tkind |-> body.tkind, tval |-> body.tval]
    /\ UNCHANGED <<cleanVars, body, text, calls, splitVars>>

\* 4) text = clean_text(str(raw_text))
Clean ==
    /\ pc = "clean"
    /\ calls' = Append(calls, "clean_text")
    /\ text' = clean_text(Str(raw_text))
    /\ pc' = "pick"
    /\ UNCHANGED <<cleanVars, body, raw_text, response, splitVars>>

\* 5) chunk_size, overlap = pick_chunk_params(text)
Pick ==
    /\ pc = "pick"
    /\ calls' = Append(calls, "pick_chunk_params")
    /\ n_tokens' = Len(Encode(text))
    /\ chunk_size' = pick_chunk_params(n_tokens')[1]
    /\ overlap' = pick_chunk_params(n_tokens')[2]
    /\ pc' = "split"
    /\ UNCHANGED <<cleanVars, body, raw_text, text, response, step, i, windows, chunks,
                   failed, fail_budget>>

\* the name of the field holding the chunk list
ChunksKey == "chanks"

\* 7) out = [{"chanks": chunks}]; Response(json.dumps(out))
Respond ==
    /\ pc = "ret"
    /\ body.kind = "object"
    /\ response' = [status |-> 200, top |-> "array", keys |-> {ChunksKey},
                    payload |-> ChunkTexts(chunks)]
    /\ pc' = "done"
    /\ UNCHANGED <<cleanVars, body, raw_text, text, calls, splitVars>>

NextHandler ==
    \/ Parse
    \/ CheckDict
    \/ GetText
    \/ Clean
    \/ Pick
    \/ SplitBegin
    \/ SplitIter
    \/ SplitReturn
    \/ Respond

SpecHandler == InitHandler /\ [][NextHandler]_vars

-----------------------------------------------------------------------------
(* Properties *)

IsControlOrSo(ch) == category(ch)[1] = "C" \/ category(ch) = <<"S", "o">>

\* C1: for a request whose normalized text is empty (n = 0, chunk_size = 0,
\* overlap = 0) the pipeline raises no unhandled fault and the split returns
\* either the empty chunk list or a list of exactly one empty chunk.
C1_EmptyInputWellDefined ==
    text = <<>> =>
        /\ pc # "fault"
        /\ pc \in {"ret", "done"} => chunks \in {<<>>, <<<<>>>>}

C3_Idempotent == passes = 2 => twice = once

C3_Witness ==
    /\ passes = 2
    /\ once # raw_in
    /\ Len(once) >= 3
    /\ \E k \in 1..Len(raw_in) : raw_in[k] = SP \/ IsControlOrSo(raw_in[k])

\* C4: pick_chunk_params returns (n, 0) below 300 tokens, (512, 64) below
\* 2000, (1024, 128) below 5000, (1500, 200) below 12000 and (2000, 250) from
\* 12000 on, the boundary values included.
C4_PlannerTable ==
    pc # "pick_tokens" =>
        /\ n_tokens < 300 => chunk_size = n_tokens /\ overlap = 0
        /\ (300 <= n_tokens /\ n_tokens < 2000) => chunk_size = 512 /\ overlap = 64
        /\ (2000 <= n_tokens /\ n_tokens < 5000) => chunk_size = 1024 /\ overlap = 128
        /\ (5000 <= n_tokens /\ n_tokens < 12000) => chunk_size = 1500 /\ overlap = 200
        /\ n_tokens >= 12000 => chunk_size = 2000 /\ overlap = 250

C4_Witness == pc = "split" /\ n_tokens = 12000 /\ chunk_size = 2000 /\ overlap = 250

\* the windows taken cover [0, n_tokens) without a gap
CoversAll ==
    IF n_tokens = 0 THEN windows = <<>>
    ELSE /\ Len(windows) >= 1
         /\ windows[1][1] = 0
         /\ windows[Len(windows)][2] = n_tokens
         /\ \A k \in 1..Len(windows) : windows[k][1] < windows[k][2]
         /\ \A k \in 1..(Len(windows) - 1) : windows[k + 1][1] <= windows[k][2]

\* consecutive windows, the final one apart, share exactly `overlap` tokens
OverlapExact ==
    \A k \in 1..(Len(windows) - 2) : windows[k][2] - windows[k + 1][1] = overlap

\* C5: with planner-produced parameters and n >= chunk_size, the windows of a
\* returned split cover [0, n) with no gap and consecutive windows share
\* exactly `overlap` tokens, except where the final window is involved.
C5_SlidingWindowCoverage ==
    (pc = "ret" /\ n_tokens >= chunk_size) => CoversAll /\ OverlapExact

C5_Witness ==
    /\ pc = "ret"
    /\ n_tokens >= chunk_size
    /\ overlap > 0
    /\ Len(windows) >= 3
    /\ windows[Len(windows)][2] - windows[Len(windows)][1] < chunk_size

\* the k-th window of a run in which no decode fails
ExpectedWindow(k) ==
    <<(k - 1) * step, Min((k - 1) * step + chunk_size, n_tokens)>>

ExpectedCount == (n_tokens + step - 1) \div step

\* C6: when decode fails on some windows the call still returns; a failing
\* window contributes the empty string at its own position, every other
\* window its decoded text, and number and order of the chunks are those of
\* a run without failures.
C6_DecodeFailureLocal ==
    /\ failed # {} => pc \in {"loop", "ret"}
    /\ pc = "ret" =>
        /\ Len(chunks) = ExpectedCount
        /\ \A k \in 1..Len(chunks) :
            chunks[k] = IF k \in failed THEN <<>> ELSE ExpectedWindow(k)

C6_Witness ==
    /\ pc = "ret"
    /\ Len(chunks) >= 3
    /\ 2 \in failed
    /\ 1 \notin failed
    /\ Len(chunks) \notin failed

NotRejectable(b) == b.kind = "object" /\ b.has_text /\ b.tkind # "null"

BeforePipeline == pc \in {"parse", "check_dict", "get_text", "rejected"}

\* C7 as stated: a body that is unparseable, not an object, or whose text is
\* absent or not a string is rejected with an error response and reaches none
\* of clean_text, pick_chunk_params, split_chunks_by_tokens.
C7_NonStringRejected ==
    ~(NotRejectable(body) /\ body.tkind = "string") =>
        /\ calls = <<>>
        /\ BeforePipeline
        /\ pc = "rejected" => response.status = 400

\* C7 (amended): a body that is unparseable, not an object, or whose text is
\* absent or null is rejected with an error response and reaches none of the
\* three functions; any other text value is not rejected.
C7_NoneRejected ==
    /\ ~NotRejectable(body) =>
        /\ calls = <<>>
        /\ BeforePipeline
        /\ pc = "rejected" => response.status = 400 /\ "error" \in response.keys
    /\ NotRejectable(body) => pc # "rejected"

C7_Witness ==
    /\ pc = "rejected"
    /\ body.kind = "object"
    /\ body.has_text
    /\ body.tkind = "null"
    /\ calls = <<>>

\* C8: for a request with a string text the handler calls clean_text,
\* pick_chunk_params, split_chunks_by_tokens in that order and answers with a
\* structure whose only field, `chunks`, holds the splitter's chunk list.
C8_ResponseChunksField ==
    (NotRejectable(body) /\ body.tkind = "string" /\ pc \in {"done", "fault"}) =>
        /\ pc = "done"
        /\ calls = <<"clean_text", "pick_chunk_params", "split_chunks_by_tokens">>
        /\ response.top = "object"
        /\ response.keys = {"chunks"}
        /\ response.payload = ChunkTexts(chunks)

\* C9: clean_text(x) never contains two consecutive ASCII spaces.
C9_NoDoubleSpace == passes >= 1 => ~HasDoubleSpace(once)

C9_Witness ==
    /\ passes >= 1
    /\ HasDoubleSpace(raw_in)
    /\ \E k \in 2..(Len(once) - 1) : once[k] = SP

StartsIncrease ==
    \A k \in 1..(Len(windows) - 1) : windows[k][1] < windows[k + 1][1]

\* C10: for chunk_size >= 1 and any overlap the step is strictly positive
\* (chunk_size - overlap if positive, else chunk_size), window starts strictly
\* increase and the loop terminates.
C10_PositiveStepTerminates ==
    /\ []((chunk_size >= 1 /\ pc # "split") =>
            /\ step = (IF chunk_size > overlap THEN chunk_size - overlap ELSE chunk_size)
            /\ step > 0
            /\ StartsIncrease
            /\ Len(windows) <= n_tokens)
    /\ (chunk_size >= 1 => <>(pc = "ret"))

C10_Witness ==
    /\ pc = "ret"
    /\ chunk_size >= 1
    /\ overlap >= chunk_size
    /\ Len(windows) >= 2

====
